---------------------------- MODULE Spec2Model ----------------------------
(***************************************************************************)
(* A model of the SVU episode picker (svu_picker.py and its Streamlit      *)
(* front end app.py): the range parser, the row normalizer, the filter,    *)
(* the ranker, the detail expander and the command-line run.               *)
(*                                                                         *)
(* Text is modelled as a sequence of one-character strings, so that        *)
(* parsing and formatting work on characters as the Python code does.      *)
(* Ratings are held in tenths (8.5 is 85); a rating that is None is the    *)
(* value NoRating, distinct from Rating(0).  A call that can raise gives   *)
(* Returned(value) or Raised.                                              *)
(*                                                                         *)
(* Each component has a specification of its own (SpecRange, SpecLoad,     *)
(* SpecFilter, SpecRank, SpecDetails); Spec is a run of main.              *)
(***************************************************************************)
EXTENDS Integers, Sequences, FiniteSets, TLC

VARIABLES
    pc,            \* position of the run being modelled
    range_str,     \* parse_range: the expression given
    rng,           \* parse_range: its outcome
    rebuilt,       \* app.py: the expression rebuilt from a quadruple
    rng2,          \* parse_range: the outcome on the rebuilt expression
    file,          \* load_csv: the rows csv.DictReader yields
    rows,          \* load_csv: the records appended so far
    episodes,      \* the catalog handed to filter_episodes / held by main
    fargs,         \* filter_episodes: rng, min_imdb, allow_seasons, exclude_seasons
    candidates,    \* filter_episodes' result, rank_and_select's input
    n,             \* rank_and_select: the requested count
    results,       \* rank_and_select's result
    candidates2,   \* the same candidates in another order
    results2,      \* rank_and_select's result on candidates2
    ep,            \* details_expand: the record given
    details,       \* details_expand's outcome
    args,          \* main: the parsed command line
    api_key,       \* OMDB_API_KEY: whether the environment sets it
    idx,           \* main: position of the enrichment loop
    lookups,       \* per record, the number of calls of fetch_imdb_rating_from_omdb
    fetched,       \* per record, what the lookup met
    loaded,        \* the catalog as loaded, before enrichment
    calls,         \* which pipeline functions main has called
    printed,       \* what main printed last
    exit_code      \* main's exit status

rangeVars == <<range_str, rng, rebuilt, rng2>>
loadVars == <<file, rows>>
filterVars == <<episodes, fargs, candidates>>
rankVars == <<n, results, candidates2, results2>>
detailVars == <<ep, details>>
cliVars == <<args, api_key, idx, lookups, fetched, loaded, calls, printed, exit_code>>

vars == <<pc, rangeVars, loadVars, filterVars, rankVars, detailVars, cliVars>>

None == "None"

\* imdb_rating: None, or a float held in tenths
NoRating == [known |-> FALSE, val |-> 0]

Rating(v) == [known |-> TRUE, val |-> v]

(***************************************************************************)
(* Text helpers: str.strip, str.upper, str.split, int(), str(int).         *)
(***************************************************************************)
Digits == <<"0", "1", "2", "3", "4", "5", "6", "7", "8", "9">>

IsDigit(c) == \E i \in 1..10 : Digits[i] = c

DigitVal(c) == (CHOOSE i \in 1..10 : Digits[i] = c) - 1

IsSpace(c) == c = " "

RECURSIVE LStrip(_)
LStrip(s) == IF s # <<>> /\ IsSpace(Head(s)) THEN LStrip(Tail(s)) ELSE s

RECURSIVE RStrip(_)
RStrip(s) ==
    IF s # <<>> /\ IsSpace(s[Len(s)]) THEN RStrip(SubSeq(s, 1, Len(s) - 1)) ELSE s

Strip(s) == RStrip(LStrip(s))

LowerLetters ==
    <<"a", "b", "c", "d", "e", "f", "g", "h", "i", "j", "k", "l", "m",
      "n", "o", "p", "q", "r", "s", "t", "u", "v", "w", "x", "y", "z">>

UpperLetters ==
    <<"A", "B", "C", "D", "E", "F", "G", "H", "I", "J", "K", "L", "M",
      "N", "O", "P", "Q", "R", "S", "T", "U", "V", "W", "X", "Y", "Z">>

UpperChar(c) ==
    IF \E i \in 1..26 : LowerLetters[i] = c
    THEN UpperLetters[CHOOSE i \in 1..26 : LowerLetters[i] = c]
    ELSE c

LowerChar(c) ==
    IF \E i \in 1..26 : UpperLetters[i] = c
    THEN LowerLetters[CHOOSE i \in 1..26 : UpperLetters[i] = c]
    ELSE c

Upper(s) == [i \in 1..Len(s) |-> UpperChar(s[i])]

Lower(s) == [i \in 1..Len(s) |-> LowerChar(s[i])]

Contains(s, c) == \E i \in 1..Len(s) : s[i] = c

\* s.index(c): the first position of c, 1-based; only used when c occurs
IndexOf(s, c) == CHOOSE i \in 1..Len(s) : s[i] = c /\ \A j \in 1..(i - 1) : s[j] # c

\* s.split(c): the pieces between the occurrences of c
RECURSIVE Split(_, _)
Split(s, c) ==
    IF ~Contains(s, c) THEN <<s>>
    ELSE LET i == IndexOf(s, c)
         IN  <<SubSeq(s, 1, i - 1)>> \o Split(SubSeq(s, i + 1, Len(s)), c)

RECURSIVE DigitsToNat(_)
DigitsToNat(s) ==
    IF s = <<>> THEN 0
    ELSE 10 * DigitsToNat(SubSeq(s, 1, Len(s) - 1)) + DigitVal(s[Len(s)])

AllDigits(s) == s # <<>> /\ \A i \in 1..Len(s) : IsDigit(s[i])

\* int(text): surrounding whitespace and one sign are allowed, then digits;
\* anything else raises ValueError (ok = FALSE).
ParseInt(text) ==
    LET t    == Strip(text)
        sgn  == t # <<>> /\ (t[1] = "-" \/ t[1] = "+")
        body == IF sgn THEN Tail(t) ELSE t
    IN  IF AllDigits(body)
        THEN [ok |-> TRUE,
              val |-> IF sgn /\ t[1] = "-" THEN 0 - DigitsToNat(body)
                      ELSE DigitsToNat(body)]
        ELSE [ok |-> FALSE, val |-> 0]

RECURSIVE NatToStr(_)
NatToStr(k) ==
    IF k < 10 THEN <<Digits[k + 1]>>
    ELSE NatToStr(k \div 10) \o <<Digits[(k % 10) + 1]>>

\* the text an f-string gives an int
IntToStr(k) == IF k < 0 THEN <<"-">> \o NatToStr(0 - k) ELSE NatToStr(k)

(***************************************************************************)
(* parse_range (svu_picker.py 66-83).  Every failure inside the try block  *)
(* is re-raised as ArgumentTypeError; cause records what was raised        *)
(* inside: "format" for the unpacking, marker and int() failures, "order"  *)
(* for the ValueError of line 80.                                          *)
(***************************************************************************)
FormatError == [ok |-> FALSE, cause |-> "format", q |-> <<>>]

OrderError == [ok |-> FALSE, cause |-> "order", q |-> <<>>]

se_to_tuple(side) ==
    LET s == Upper(Strip(side))
    IN  IF ~(s # <<>> /\ s[1] = "S" /\ Contains(s, "E"))
        THEN [ok |-> FALSE, s |-> 0, e |-> 0]
        ELSE LET i == IndexOf(s, "E")
                 a == ParseInt(SubSeq(s, 2, i - 1))
                 b == ParseInt(SubSeq(s, i + 1, Len(s)))
             IN  [ok |-> a.ok /\ b.ok, s |-> a.val, e |-> b.val]

range_order_bad_strict(s1, e1, s2, e2) == (s2 < s1) \/ (s2 = s1 /\ e2 <= e1)

range_order_bad(s1, e1, s2, e2) == (s2 < s1) \/ (s2 = s1 /\ e2 < e1)

parse_range(str) ==
    LET parts == Split(str, ">")
    IN  IF Len(parts) # 2 THEN FormatError
        ELSE LET l == se_to_tuple(parts[1])
                 r == se_to_tuple(parts[2])
             IN  IF ~l.ok \/ ~r.ok THEN FormatError
                 ELSE IF range_order_bad(l.s, l.e, r.s, r.e) THEN OrderError
                 ELSE [ok |-> TRUE, cause |-> "", q |-> <<l.s, l.e, r.s, r.e>>]

\* app.py 71: f"S{int(start_season)}E{int(start_episode)}>S{...}E{...}"
range_str_swapped(q) ==
    <<"S">> \o IntToStr(q[3]) \o <<"E">> \o IntToStr(q[4]) \o <<">">>
        \o <<"S">> \o IntToStr(q[1]) \o <<"E">> \o IntToStr(q[2])

range_str_of(q) ==
    <<"S">> \o IntToStr(q[1]) \o <<"E">> \o IntToStr(q[2]) \o <<">">>
        \o <<"S">> \o IntToStr(q[3]) \o <<"E">> \o IntToStr(q[4])


(***************************************************************************)
(* The range parser on its own: an expression is parsed, an accepted       *)
(* quadruple is rebuilt into an expression as app.py does, and that is     *)
(* parsed again.                                                           *)
(***************************************************************************)
MaxSeasonIn == 2
MaxEpisodeIn == 1

SeasonVals == (-1)..MaxSeasonIn

EpisodeVals == {-150, -5} \cup (0..MaxEpisodeIn) \cup {99, 100, 150}

WellFormedSides ==
    {<<"S">> \o IntToStr(s) \o <<"E">> \o IntToStr(e) : s \in SeasonVals, e \in EpisodeVals}

VariantSides ==
    { <<" ", "s", "1", "e", "1", " ">>,
      <<"S", "0", "2", "E", "0", "1">>,
      <<"S", "+", "1", "E", " ", "1">> }

MalformedSides ==
    { <<"S", "2", "-", "E", "1">>,
      <<"2", "E", "1">>,
      <<"S", "2">>,
      <<"S", "x", "E", "1">>,
      <<"S", "1", "E">>,
      <<"S", "1", "E", "1", "E", "1">>,
      <<>> }

Sides == WellFormedSides \cup VariantSides \cup MalformedSides

RangeExpressions ==
    {l \o <<">">> \o r : l \in Sides, r \in Sides}
        \cup Sides
        \cup {l \o <<">">> \o l \o <<">">> \o l : l \in VariantSides}

IdleRange == range_str = <<>> /\ rng = None /\ rebuilt = <<>> /\ rng2 = None
IdleLoad == file = <<>> /\ rows = <<>>
IdleFilter == episodes = <<>> /\ fargs = None /\ candidates = <<>>
IdleRank == n = 0 /\ results = <<>> /\ candidates2 = <<>> /\ results2 = <<>>
IdleDetail == ep = None /\ details = None
IdleCli ==
    /\ args = None /\ api_key = FALSE /\ idx = 0 /\ lookups = <<>> /\ fetched = <<>>
    /\ loaded = <<>> /\ calls = {} /\ printed = None /\ exit_code = None

InitRange ==
    /\ pc = "range_given"
    /\ range_str \in RangeExpressions
    /\ rng = None /\ rebuilt = <<>> /\ rng2 = None
    /\ IdleLoad /\ IdleFilter /\ IdleRank /\ IdleDetail /\ IdleCli

ParseRange ==
    /\ pc = "range_given"
    /\ rng' = parse_range(range_str)
    /\ pc' = "range_parsed"
    /\ UNCHANGED <<range_str, rebuilt, rng2>>
    /\ UNCHANGED <<loadVars, filterVars, rankVars, detailVars, cliVars>>

RebuildRange ==
    /\ pc = "range_parsed"
    /\ rng.ok
    /\ rebuilt' = range_str_of(rng.q)
    /\ pc' = "range_rebuilt"
    /\ UNCHANGED <<range_str, rng, rng2>>
    /\ UNCHANGED <<loadVars, filterVars, rankVars, detailVars, cliVars>>

ReparseRange ==
    /\ pc = "range_rebuilt"
    /\ rng2' = parse_range(rebuilt)
    /\ pc' = "range_reparsed"
    /\ UNCHANGED <<range_str, rng, rebuilt>>
    /\ UNCHANGED <<loadVars, filterVars, rankVars, detailVars, cliVars>>

NextRange == ParseRange \/ RebuildRange \/ ReparseRange

SpecRange == InitRange /\ [][NextRange]_vars


(***************************************************************************)
(* Claims about the range parser.                                          *)
(***************************************************************************)
Linearized(s, e) == s * 100 + e

\* the two sides of an expression that has exactly one separator
LeftSide(str) == se_to_tuple(Split(str, ">")[1])

RightSide(str) == se_to_tuple(Split(str, ">")[2])

WellFormed(str) ==
    /\ Len(Split(str, ">")) = 2
    /\ LeftSide(str).ok
    /\ RightSide(str).ok

EndBelowStartLinearized(str) ==
    Linearized(RightSide(str).s, RightSide(str).e)
        < Linearized(LeftSide(str).s, LeftSide(str).e)

EndBelowStartByPair(str) ==
    \/ RightSide(str).s < LeftSide(str).s
    \/ RightSide(str).s = LeftSide(str).s /\ RightSide(str).e < LeftSide(str).e

EpisodesBelow100(str) ==
    /\ LeftSide(str).e \in 0..99
    /\ RightSide(str).e \in 0..99

\* C3 as stated: every well-formed expression whose linearized end point
\* (season*100 + episode) is below its linearized start point fails with the
\* order error, and no accepted quadruple has its linearized end below its
\* linearized start.
C3_OrderErrorByLinearized ==
    pc # "range_given" =>
        /\ (WellFormed(range_str) /\ EndBelowStartLinearized(range_str)
                => rng = OrderError)
        /\ (rng.ok => Linearized(rng.q[3], rng.q[4]) >= Linearized(rng.q[1], rng.q[2]))

\* C3 as amended: a well-formed expression fails with the order error exactly
\* when its end (season, episode) pair is below its start pair (end season
\* smaller, or seasons equal and end episode smaller); when both episode
\* numbers lie in 0..99 that is exactly when the linearized end is below the
\* linearized start, and an accepted quadruple then has linearized end >=
\* linearized start.
C3_OrderErrorByPair ==
    (pc # "range_given" /\ WellFormed(range_str)) =>
        /\ (rng = OrderError <=> EndBelowStartByPair(range_str))
        /\ (~EndBelowStartByPair(range_str) =>
                rng = [ok |-> TRUE, cause |-> "",
                       q |-> <<LeftSide(range_str).s, LeftSide(range_str).e,
                               RightSide(range_str).s, RightSide(range_str).e>>])
        /\ (EpisodesBelow100(range_str) =>
                (rng = OrderError <=> EndBelowStartLinearized(range_str)))

C3_Witness ==
    /\ pc = "range_parsed"
    /\ WellFormed(range_str)
    /\ EpisodesBelow100(range_str)
    /\ EndBelowStartLinearized(range_str)
    /\ LeftSide(range_str).s = RightSide(range_str).s
    /\ rng = OrderError

\* C9: an accepted quadruple, rebuilt as S<s1>E<e1>>S<s2>E<e2> and parsed
\* again, is accepted and gives the same quadruple.
C9_RoundTrip ==
    pc = "range_reparsed" => (rng2.ok /\ rng2.q = rng.q)

C9_Witness ==
    /\ pc = "range_reparsed"
    /\ rebuilt # range_str
    /\ rng.q[1] # rng.q[3]
    /\ rng.q[2] < 0
    /\ rng2.ok
    /\ rng2.q = rng.q

(***************************************************************************)
(* normalize_row and load_csv (svu_picker.py 85-114).  A row maps column   *)
(* names to values; r.get(column) is None for a column the row lacks.      *)
(* A value is None, a str (csv rows), or an int, float or bool (the        *)
(* built-in SAMPLE_EPISODES).                                              *)
(***************************************************************************)
Absent == [t |-> "none", s |-> <<>>, i |-> 0, b |-> FALSE]

Str(text) == [t |-> "str", s |-> text, i |-> 0, b |-> FALSE]

IntV(k) == [t |-> "int", s |-> <<>>, i |-> k, b |-> FALSE]

FloatV(tenths) == [t |-> "float", s |-> <<>>, i |-> tenths, b |-> FALSE]

BoolV(x) == [t |-> "bool", s |-> <<>>, i |-> 0, b |-> x]

\* Python truthiness of a value
Truthy(v) ==
    CASE v.t = "none" -> FALSE
      [] v.t = "str" -> v.s # <<>>
      [] v.t = "int" -> v.i # 0
      [] v.t = "float" -> v.i # 0
      [] v.t = "bool" -> v.b

\* int(v or 0): raises ValueError on text that is no integer literal
int_or_0(v) ==
    IF ~Truthy(v) THEN [ok |-> TRUE, val |-> 0]
    ELSE CASE v.t = "str" -> ParseInt(v.s)
           [] v.t = "int" -> [ok |-> TRUE, val |-> v.i]
           [] v.t = "float" -> [ok |-> TRUE, val |-> v.i \div 10]
           [] v.t = "bool" -> [ok |-> TRUE, val |-> 1]

\* float(text) for decimal literals with at most one fractional digit, in
\* tenths; other text (no digits, letters, several dots) raises ValueError.
ParseFloat(text) ==
    LET t     == Strip(text)
        sgn   == t # <<>> /\ (t[1] = "-" \/ t[1] = "+")
        body  == IF sgn THEN Tail(t) ELSE t
        parts == Split(body, ".")
        whole == parts[1]
        frac  == IF Len(parts) = 2 THEN parts[2] ELSE <<>>
        okay  == /\ Len(parts) <= 2
                 /\ whole # <<>> \/ frac # <<>>
                 /\ \A j \in 1..Len(whole) : IsDigit(whole[j])
                 /\ Len(frac) <= 1
                 /\ \A j \in 1..Len(frac) : IsDigit(frac[j])
        mag   == 10 * DigitsToNat(whole) + DigitsToNat(frac)
    IN  IF okay
        THEN [ok |-> TRUE, val |-> IF sgn /\ t[1] = "-" THEN 0 - mag ELSE mag]
        ELSE [ok |-> FALSE, val |-> 0]

\* to_float: float(v), None on any exception
to_float(v) ==
    CASE v.t = "none" -> NoRating
      [] v.t = "str" -> IF ParseFloat(v.s).ok THEN Rating(ParseFloat(v.s).val)
                        ELSE NoRating
      [] v.t = "int" -> Rating(10 * v.i)
      [] v.t = "float" -> Rating(v.i)
      [] v.t = "bool" -> Rating(IF v.b THEN 10 ELSE 0)

TruthyWords ==
    { <<"1">>, <<"t", "r", "u", "e">>, <<"y", "e", "s">>, <<"y">>, <<"t">> }

\* str(v) of a value that is neither bool nor None
StrOf(v) ==
    CASE v.t = "str" -> v.s
      [] v.t = "int" -> IntToStr(v.i)
      [] v.t = "float" -> IntToStr(v.i \div 10) \o <<".">> \o IntToStr(v.i % 10)

to_bool(v) ==
    IF v.t = "bool" THEN v.b
    ELSE IF v.t = "none" THEN FALSE
    ELSE Lower(Strip(StrOf(v))) \in TruthyWords

\* r.get(a) or r.get(b) or "" for text columns
TextOr(v, w) == IF Truthy(v) THEN v.s ELSE IF Truthy(w) THEN w.s ELSE <<>>

\* how a call ends: it returns a value, or an exception leaves it
Returned(x) == [ok |-> TRUE, val |-> x]

Raised == [ok |-> FALSE, val |-> None]

normalize_row(r) ==
    LET season  == int_or_0(r.season)
        episode == int_or_0(r.episode)
    IN  IF ~season.ok \/ ~episode.ok THEN Raised
        ELSE Returned(
             [season |-> season.val,
              episode |-> episode.val,
              title |-> TextOr(r.title, r.name),
              air_date |-> TextOr(r.air_date, Absent),
              imdb_id |-> TextOr(r.imdb_id, Absent),
              imdb_rating |-> to_float(r.imdb_rating),
              features_george_huang |-> to_bool(r.features_george_huang),
              heavy_finn_munch |-> to_bool(r.heavy_finn_munch),
              heavy_trial |-> to_bool(r.heavy_trial),
              one_sentence_plot |-> TextOr(r.one_sentence_plot, Absent),
              one_sentence_reason |-> TextOr(r.one_sentence_reason, Absent)])

(***************************************************************************)
(* load_csv over a file: one normalize_row per row, in order; an exception *)
(* of normalize_row leaves load_csv.                                       *)
(***************************************************************************)
MaxRows == 2

BaseRow ==
    [season |-> Str(<<"3">>), episode |-> Str(<<"7">>),
     title |-> Str(<<"a">>), name |-> Absent,
     air_date |-> Str(<<"d">>), imdb_id |-> Str(<<"t", "t", "1">>),
     imdb_rating |-> Str(<<"8", ".", "5">>),
     features_george_huang |-> Str(<<"1">>),
     heavy_finn_munch |-> Str(<<"0">>),
     heavy_trial |-> Str(<<"0">>),
     one_sentence_plot |-> Str(<<"a">>),
     one_sentence_reason |-> Str(<<"a">>)]

SeasonTexts ==
    { Absent, Str(<<>>), Str(<<"0">>), Str(<<"-", "3">>), Str(<<"x">>),
      Str(<<" ", "4">>), Str(<<"2", ".", "0">>) }

EpisodeTexts == { Absent, Str(<<"-", "1">>), Str(<<"1", "a">>) }

RatingTexts ==
    { Absent, Str(<<>>), Str(<<"0">>), Str(<<"0", ".", "0">>), Str(<<"n", "a">>),
      Str(<<" ", "9">>), Str(<<"8", ".", "5", ".", "1">>) }

FlagTexts ==
    { Absent, Str(<<>>), Str(<<" ", "T", "R", "U", "E">>), Str(<<"Y">>),
      Str(<<"n", "o">>), Str(<<"2">>) }

LoadRows ==
    {[BaseRow EXCEPT !.season = v] : v \in SeasonTexts}
        \cup {[BaseRow EXCEPT !.episode = v] : v \in EpisodeTexts}
        \cup {[BaseRow EXCEPT !.imdb_rating = v] : v \in RatingTexts}
        \cup {[BaseRow EXCEPT !.features_george_huang = v, !.heavy_trial = v] :
                 v \in FlagTexts}
        \cup {[BaseRow EXCEPT !.title = v, !.name = Str(<<"B">>)] :
                 v \in {Absent, Str(<<>>)}}
        \cup {[BaseRow EXCEPT !.title = Absent, !.one_sentence_plot = Absent,
                              !.imdb_id = Absent]}

SeqsUpTo(S, k) == UNION {[1..m -> S] : m \in 0..k}

InitLoad ==
    /\ pc = "load_open"
    /\ file \in SeqsUpTo(LoadRows, MaxRows)
    /\ rows = <<>>
    /\ IdleRange /\ IdleFilter /\ IdleRank /\ IdleDetail /\ IdleCli

\* one turn of the for loop of load_csv
LoadRow ==
    /\ pc = "load_open"
    /\ Len(rows) < Len(file)
    /\ LET rec == normalize_row(file[Len(rows) + 1])
       IN  IF rec.ok
           THEN rows' = Append(rows, rec.val) /\ pc' = pc
           ELSE rows' = rows /\ pc' = "load_raised"
    /\ UNCHANGED file
    /\ UNCHANGED <<rangeVars, filterVars, rankVars, detailVars, cliVars>>

LoadReturn ==
    /\ pc = "load_open"
    /\ Len(rows) = Len(file)
    /\ pc' = "load_returned"
    /\ UNCHANGED <<file, rows>>
    /\ UNCHANGED <<rangeVars, filterVars, rankVars, detailVars, cliVars>>

NextLoad == LoadRow \/ LoadReturn

SpecLoad == InitLoad /\ [][NextLoad]_vars

(***************************************************************************)
(* Claims about the normalizer.                                            *)
(***************************************************************************)
\* whether int() reads the text of a column
IsIntegerText(v) == v.t = "str" /\ ParseInt(v.s).ok

IsNumberText(v) == v.t = "str" /\ ParseFloat(v.s).ok

\* C4: normalize_row never fails; a season or episode column that is absent
\* or is no integer gives 0, a rating column that is absent or no number
\* gives None (not 0.0); load_csv returns one record per row.
C4_NormalizeNeverFails ==
    /\ pc # "load_raised"
    /\ \A k \in 1..Len(rows) :
           /\ ~IsIntegerText(file[k].season) => rows[k].season = 0
           /\ ~IsIntegerText(file[k].episode) => rows[k].episode = 0
           /\ ~IsNumberText(file[k].imdb_rating) => rows[k].imdb_rating = NoRating
    /\ pc = "load_returned" => Len(rows) = Len(file)

\* C5: every record normalize_row produces has season >= 0 and episode >= 0.
C5_SeasonEpisodeNonNegative ==
    \A k \in 1..Len(rows) : rows[k].season >= 0 /\ rows[k].episode >= 0

(***************************************************************************)
(* in_range and filter_episodes (svu_picker.py 116-144).                   *)
(***************************************************************************)
MIN_IMDB_RATING == 80

MAX_SEASONS_ALLOWED == <<1, 12>>

ToSet(seq) == {seq[k] : k \in 1..Len(seq)}

in_range_exclusive_end(e, s1, e1, s2, e2) ==
    LET v     == e.season * 100 + e.episode
        start == s1 * 100 + e1
        end   == s2 * 100 + e2
    IN  start <= v /\ v < end

in_range(e, s1, e1, s2, e2) ==
    LET v     == e.season * 100 + e.episode
        start == s1 * 100 + e1
        end   == s2 * 100 + e2
    IN  start <= v /\ v <= end

\* the body of the for loop: FALSE where the code says continue
Kept(e, q, min_imdb, allow_seasons, ex_seasons) ==
    IF ex_seasons # {} /\ e.season \in ex_seasons THEN FALSE
    ELSE IF ~in_range(e, q[1], q[2], q[3], q[4]) THEN FALSE
    ELSE IF ~(allow_seasons[1] <= e.season /\ e.season <= allow_seasons[2]) THEN FALSE
    ELSE IF ~e.features_george_huang THEN FALSE
    ELSE IF e.heavy_finn_munch THEN FALSE
    ELSE IF e.heavy_trial THEN FALSE
    ELSE IF ~e.imdb_rating.known \/ e.imdb_rating.val < min_imdb THEN FALSE
    ELSE TRUE

RECURSIVE FilterLoop(_, _, _, _, _, _)
FilterLoop(eps, out, q, min_imdb, allow_seasons, ex_seasons) ==
    IF eps = <<>> THEN out
    ELSE FilterLoop(Tail(eps),
                    IF Kept(Head(eps), q, min_imdb, allow_seasons, ex_seasons)
                    THEN Append(out, Head(eps)) ELSE out,
                    q, min_imdb, allow_seasons, ex_seasons)

filter_episodes(eps, q, min_imdb, allow_seasons, exclude_seasons) ==
    FilterLoop(eps, <<>>, q, min_imdb, allow_seasons, ToSet(exclude_seasons))

(***************************************************************************)
(* The filter on its own: a catalog of normalized records and the          *)
(* arguments of one call.                                                  *)
(***************************************************************************)
MaxCatalog == 2

Episode(season, episode, title, rating, huang, finn_munch, trial) ==
    [season |-> season, episode |-> episode, title |-> title,
     air_date |-> <<"d">>, imdb_id |-> <<"t", "t", "1">>, imdb_rating |-> rating,
     features_george_huang |-> huang, heavy_finn_munch |-> finn_munch,
     heavy_trial |-> trial,
     one_sentence_plot |-> <<"a">>, one_sentence_reason |-> <<"a">>]

CatalogRecords ==
    {Episode(s, e, <<"a">>, Rating(85), TRUE, FALSE, FALSE) :
         s \in {0, 1, 2, 3, 12, 13}, e \in {1, 50}}
        \cup {Episode(2, 50, <<"B">>, Rating(85), h, m, t) :
                 h \in BOOLEAN, m \in BOOLEAN, t \in BOOLEAN}
        \cup {Episode(2, 50, <<"c">>, r, TRUE, FALSE, FALSE) :
                 r \in {NoRating, Rating(0), Rating(79), Rating(80), Rating(100)}}

\* quadruples parse_range returns
FilterRanges ==
    { <<2, 1, 3, 1>>, <<2, 50, 2, 50>>, <<0, 0, 13, 99>>, <<1, 150, 2, 10>> }

FilterArgs ==
    [rng : FilterRanges,
     min_imdb : {0, MIN_IMDB_RATING},
     allow_seasons : {MAX_SEASONS_ALLOWED},
     exclude_seasons : {<<>>, <<2>>, <<3, 13>>}]

InitFilter ==
    /\ pc = "filter_called"
    /\ episodes \in SeqsUpTo(CatalogRecords, MaxCatalog)
    /\ fargs \in FilterArgs
    /\ candidates = <<>>
    /\ IdleRange /\ IdleLoad /\ IdleRank /\ IdleDetail /\ IdleCli

FilterEpisodes ==
    /\ pc = "filter_called"
    /\ candidates' = filter_episodes(episodes, fargs.rng, fargs.min_imdb,
                                     fargs.allow_seasons, fargs.exclude_seasons)
    /\ pc' = "filter_returned"
    /\ UNCHANGED <<episodes, fargs>>
    /\ UNCHANGED <<rangeVars, loadVars, rankVars, detailVars, cliVars>>

NextFilter == FilterEpisodes

SpecFilter == InitFilter /\ [][NextFilter]_vars

(***************************************************************************)
(* Claim about the filter.                                                 *)
(***************************************************************************)
\* the seven predicates of the contract, for one record
PassesAll(e) ==
    /\ e.season \notin ToSet(fargs.exclude_seasons)
    /\ e.season * 100 + e.episode >= fargs.rng[1] * 100 + fargs.rng[2]
    /\ e.season * 100 + e.episode <= fargs.rng[3] * 100 + fargs.rng[4]
    /\ e.season >= fargs.allow_seasons[1]
    /\ e.season <= fargs.allow_seasons[2]
    /\ e.features_george_huang
    /\ ~e.heavy_finn_munch
    /\ ~e.heavy_trial
    /\ e.imdb_rating.known
    /\ e.imdb_rating.val >= fargs.min_imdb

DEFAULT_NUM_RESULTS == 3

\* the characters of the model in code point order
CodePoints ==
    <<" ", "+", ",", "-", ".">> \o Digits \o <<">">> \o UpperLetters \o LowerLetters

Code(c) == CHOOSE k \in 1..Len(CodePoints) : CodePoints[k] = c

\* a < b for str
RECURSIVE TextLess(_, _)
TextLess(a, b) ==
    IF b = <<>> THEN FALSE
    ELSE IF a = <<>> THEN TRUE
    ELSE IF Head(a) # Head(b) THEN Code(Head(a)) < Code(Head(b))
    ELSE TextLess(Tail(a), Tail(b))

\* float(e.get("imdb_rating") or 0.0), in tenths
RatingOrZero(e) == IF e.imdb_rating.known THEN e.imdb_rating.val ELSE 0

RankKeyLess_rating_only(a, b) == (0 - RatingOrZero(a)) < (0 - RatingOrZero(b))

\* key(a) < key(b)
RankKeyLess(a, b) ==
    \/ (0 - RatingOrZero(a)) < (0 - RatingOrZero(b))
    \/ /\ RatingOrZero(a) = RatingOrZero(b)
       /\ TextLess(a.title, b.title)

\* x goes before the first element whose key is greater than x's
RECURSIVE InsertSorted(_, _)
InsertSorted(sorted, x) ==
    IF sorted = <<>> THEN <<x>>
    ELSE IF RankKeyLess(x, Head(sorted)) THEN <<x>> \o sorted
    ELSE <<Head(sorted)>> \o InsertSorted(Tail(sorted), x)

RECURSIVE SortedFrom(_, _)
SortedFrom(sorted, rest) ==
    IF rest = <<>> THEN sorted
    ELSE SortedFrom(InsertSorted(sorted, Head(rest)), Tail(rest))

\* sorted(cands, key=...)
Sorted(cands) == SortedFrom(<<>>, cands)

\* seq[:k]
SliceTo(seq, k) ==
    IF k >= 0 THEN SubSeq(seq, 1, IF k < Len(seq) THEN k ELSE Len(seq))
    ELSE SubSeq(seq, 1, IF Len(seq) + k > 0 THEN Len(seq) + k ELSE 0)

rank_and_select_truncate_first(cands, num) == Sorted(SliceTo(cands, num))

rank_and_select(cands, num) == SliceTo(Sorted(cands), num)

(***************************************************************************)
(* The ranker on its own: it is called on a candidate sequence and on the  *)
(* same candidates in another order.                                       *)
(***************************************************************************)
MaxCandidates == 3

MaxNum == 4

RankRecords ==
    {Episode(2, 1, t, Rating(85), TRUE, FALSE, FALSE) :
         t \in {<<"B">>, <<"a">>, <<"a", "b">>}}
        \cup {Episode(2, 2, t, Rating(80), TRUE, FALSE, FALSE) :
                 t \in {<<"B">>, <<"a">>}}
        \cup {Episode(3, 1, <<"a">>, Rating(85), TRUE, FALSE, FALSE)}

Orderings(k) == {p \in [1..k -> 1..k] : \A i, j \in 1..k : p[i] = p[j] => i = j}

Reordered(seq, p) == [k \in 1..Len(seq) |-> seq[p[k]]]

InitRank ==
    /\ pc = "rank_called"
    /\ candidates \in SeqsUpTo(RankRecords, MaxCandidates)
    /\ candidates2 \in {Reordered(candidates, p) : p \in Orderings(Len(candidates))}
    /\ n \in 0..MaxNum
    /\ results = <<>>
    /\ results2 = <<>>
    /\ episodes = <<>> /\ fargs = None
    /\ IdleRange /\ IdleLoad /\ IdleDetail /\ IdleCli

RankAndSelect ==
    /\ pc = "rank_called"
    /\ results' = rank_and_select(candidates, n)
    /\ results2' = rank_and_select(candidates2, n)
    /\ pc' = "rank_returned"
    /\ UNCHANGED <<n, candidates2, filterVars>>
    /\ UNCHANGED <<rangeVars, loadVars, detailVars, cliVars>>

NextRank == RankAndSelect

SpecRank == InitRank /\ [][NextRank]_vars

(***************************************************************************)
(* Claims about the ranker.                                                *)
(***************************************************************************)
\* a ranks strictly before b: higher rating, or equal rating and lower title
RanksBefore(a, b) ==
    \/ a.imdb_rating.val > b.imdb_rating.val
    \/ a.imdb_rating.val = b.imdb_rating.val /\ TextLess(a.title, b.title)

Min(a, b) == IF a < b THEN a ELSE b

\* C2: for N >= 1 the result has min(N, number of candidates) records, and
\* they are the first that many of all the candidates arranged by rating
\* descending then title ascending.
C2_TopNOfFullSort ==
    (pc = "rank_returned" /\ n >= 1) =>
        /\ Len(results) = Min(n, Len(candidates))
        /\ \E p \in Orderings(Len(candidates)) :
               /\ \A i, j \in 1..Len(candidates) :
                      i < j => ~RanksBefore(candidates[p[j]], candidates[p[i]])
               /\ \A i \in 1..Len(results) : results[i] = candidates[p[i]]

C2_Witness ==
    /\ pc = "rank_returned"
    /\ Len(candidates) = 3
    /\ n = 2
    /\ results = <<candidates[3], candidates[2]>>
    /\ RanksBefore(candidates[2], candidates[1])

C2_WitnessFewer ==
    /\ pc = "rank_returned"
    /\ n = 4
    /\ Len(candidates) = 3
    /\ Len(results) = 3
    /\ results # candidates

KeysOf(seq) == [k \in 1..Len(seq) |-> <<seq[k].imdb_rating.val, seq[k].title>>]

EqualRatingsByTitle(seq) ==
    \A i, j \in 1..Len(seq) :
        (i < j /\ seq[i].imdb_rating.val = seq[j].imdb_rating.val)
            => ~TextLess(seq[j].title, seq[i].title)

\* C10 as stated: two orderings of the same candidates give the same result
\* sequence, records of equal rating in ascending title order.
C10_SameResultAnyOrder ==
    (pc = "rank_returned" /\ n >= 1) =>
        /\ results = results2
        /\ EqualRatingsByTitle(results)

\* no two different candidates share both rating and title
KeysIdentifyRecords ==
    \A i, j \in 1..Len(candidates) :
        (/\ candidates[i].imdb_rating.val = candidates[j].imdb_rating.val
         /\ candidates[i].title = candidates[j].title)
            => candidates[i] = candidates[j]

\* C10 as amended: two orderings of the same candidates give results with
\* the same sequence of (rating, title) pairs, records of equal rating in
\* ascending title order; the results are the same records in the same
\* order whenever no two different candidates share both rating and title.
C10_SameKeysAnyOrder ==
    (pc = "rank_returned" /\ n >= 1) =>
        /\ KeysOf(results) = KeysOf(results2)
        /\ EqualRatingsByTitle(results)
        /\ EqualRatingsByTitle(results2)
        /\ (KeysIdentifyRecords => results = results2)

C10_Witness ==
    /\ pc = "rank_returned"
    /\ n >= 2
    /\ Len(candidates) = 3
    /\ candidates2 # candidates
    /\ KeysIdentifyRecords
    /\ results = results2
    /\ results[1].imdb_rating = results[2].imdb_rating
    /\ results[1].title # results[2].title
    /\ results # SubSeq(candidates, 1, 2)

(***************************************************************************)
(* details_expand (svu_picker.py 163-199): the two lists of bullets it     *)
(* builds before it formats them.  The only whitespace character of the    *)
(* model is the space.                                                     *)
(***************************************************************************)
MAX_BULLETS == 4

NoDetail ==
    <<"(", "N", "o", " ", "d", "e", "t", "a", "i", "l", " ",
      "a", "v", "a", "i", "l", "a", "b", "l", "e", ")">>

\* the positions at which pat occurs in s
Occurrences(s, pat) ==
    {k \in 1..(Len(s) - Len(pat) + 1) : SubSeq(s, k, k + Len(pat) - 1) = pat}

\* s.replace(pat, rep): occurrences left to right, not overlapping
RECURSIVE Replace(_, _, _)
Replace(s, pat, rep) ==
    IF Occurrences(s, pat) = {} THEN s
    ELSE LET k == CHOOSE i \in Occurrences(s, pat) :
                      \A j \in Occurrences(s, pat) : i <= j
         IN  SubSeq(s, 1, k - 1) \o rep
                 \o Replace(SubSeq(s, k + Len(pat), Len(s)), pat, rep)

\* [p.strip() for p in pieces if p.strip()]
RECURSIVE StrippedNonEmpty(_)
StrippedNonEmpty(pieces) ==
    IF pieces = <<>> THEN <<>>
    ELSE (IF Strip(Head(pieces)) # <<>> THEN <<Strip(Head(pieces))>> ELSE <<>>)
             \o StrippedNonEmpty(Tail(pieces))

\* s.split(): the maximal runs of non-whitespace
RECURSIVE Words(_)
Words(s) ==
    LET t == LStrip(s)
    IN  IF t = <<>> THEN <<>>
        ELSE IF Contains(t, " ")
             THEN <<SubSeq(t, 1, IndexOf(t, " ") - 1)>>
                      \o Words(SubSeq(t, IndexOf(t, " "), Len(t)))
             ELSE <<t>>

\* " ".join(ws)
RECURSIVE JoinSpace(_)
JoinSpace(ws) ==
    IF ws = <<>> THEN <<>>
    ELSE IF Len(ws) = 1 THEN ws[1]
    ELSE ws[1] \o <<" ">> \o JoinSpace(Tail(ws))

\* seq[a:b] for 0 <= a <= b, 0-based and end-exclusive as in Python
Slice(seq, a, b) ==
    SubSeq(seq, (IF a < Len(seq) THEN a ELSE Len(seq)) + 1,
                IF b < Len(seq) THEN b ELSE Len(seq))

\* the for loop of lines 179-182, turns i..max_bullets-1
RECURSIVE Chunks(_, _, _, _)
Chunks(words, approx, i, bullets) ==
    IF i >= MAX_BULLETS THEN bullets
    ELSE LET chunk == JoinSpace(Slice(words, i * approx, (i + 1) * approx))
         IN  Chunks(words, approx, i + 1,
                    IF chunk # <<>> THEN Append(bullets, Strip(chunk)) ELSE bullets)

\* the while loop of lines 184-185; bullets[-1] of an empty list raises
RECURSIVE Pad(_)
Pad(bullets) ==
    IF Len(bullets) >= MAX_BULLETS THEN Returned(bullets)
    ELSE IF bullets = <<>> THEN Raised
    ELSE Pad(Append(bullets, bullets[Len(bullets)]))

expand_sentence_to_bullets(sentence) ==
    IF sentence = <<>> THEN Returned([k \in 1..MAX_BULLETS |-> NoDetail])
    ELSE LET parts ==
                 StrippedNonEmpty(Split(Replace(sentence, <<" ", "a", "n", "d", " ">>,
                                                <<",", " ">>), ","))
         IN  IF Len(parts) < MAX_BULLETS
             THEN LET words   == Words(sentence)
                      approx  == IF Len(words) \div MAX_BULLETS > 1
                                 THEN Len(words) \div MAX_BULLETS ELSE 1
                      bullets == Pad(Chunks(words, approx, 0, <<>>))
                  IN  IF bullets.ok
                      THEN Returned(SubSeq(bullets.val, 1, MAX_BULLETS))
                      ELSE Raised
             ELSE Returned(SubSeq(parts, 1, MAX_BULLETS))

details_expand(e) ==
    LET plot_bullets   == expand_sentence_to_bullets(e.one_sentence_plot)
        reason_bullets == expand_sentence_to_bullets(e.one_sentence_reason)
    IN  IF plot_bullets.ok /\ reason_bullets.ok
        THEN Returned([title |-> e.title,
                       plot_bullets |-> plot_bullets.val,
                       reason_bullets |-> reason_bullets.val])
        ELSE Raised

(***************************************************************************)
(* The detail expander on its own.                                         *)
(***************************************************************************)
MaxSentenceLen == 5

SentenceChars == {" ", ",", "a", "n", "d"}

LongSentences ==
    { <<"a", ",", "d", ",", "n", ",", "a">>,
      <<"a", ",", "d", ",", "n", ",", "a", ",", "d">>,
      <<"a", " ", "a", "n", "d", " ", "d", ",", "n", ",", "a">>,
      <<"a", " ", "d", " ", "n", " ", "a", " ", "d">>,
      <<"a", " ", "d", " ", "n", " ", "a", " ", "d", " ", "n", " ", "a", " ", "d">>,
      <<" ", " ", " ", " ", " ", " ", " ", " ">> }

Sentences == SeqsUpTo(SentenceChars, MaxSentenceLen) \cup LongSentences

ReasonSentences == { <<>>, <<"a">>, <<" ">>, <<"a", ",", "d", ",", "n", ",", "a">> }

InitDetails ==
    /\ pc = "details_called"
    /\ ep \in {[Episode(2, 1, <<"a">>, Rating(85), TRUE, FALSE, FALSE)
                   EXCEPT !.one_sentence_plot = p, !.one_sentence_reason = r] :
                   p \in Sentences, r \in ReasonSentences}
    /\ details = None
    /\ IdleRange /\ IdleLoad /\ IdleFilter /\ IdleRank /\ IdleCli

DetailsExpand ==
    /\ pc = "details_called"
    /\ details' = details_expand(ep)
    /\ pc' = IF details'.ok THEN "details_returned" ELSE "details_raised"
    /\ UNCHANGED ep
    /\ UNCHANGED <<rangeVars, loadVars, filterVars, rankVars, cliVars>>

NextDetails == DetailsExpand

SpecDetails == InitDetails /\ [][NextDetails]_vars

(***************************************************************************)
(* Claim about the detail expander.                                        *)
(***************************************************************************)
FourNonEmpty(bullets) ==
    /\ Len(bullets) = 4
    /\ \A k \in 1..Len(bullets) : bullets[k] # <<>>

\* C6: for a record whose summary and justification are non-empty strings
\* (whitespace-only ones included) details_expand completes and gives
\* exactly 4 non-empty plot bullets and 4 non-empty reason bullets.
C6_FourAndFourBullets ==
    (/\ pc \in {"details_returned", "details_raised"}
     /\ ep.one_sentence_plot # <<>>
     /\ ep.one_sentence_reason # <<>>) =>
        /\ details.ok
        /\ FourNonEmpty(details.val.plot_bullets)
        /\ FourNonEmpty(details.val.reason_bullets)

\* what holds of the code: the same, unless a field is made of whitespace only
C6_ExceptWhitespaceOnly ==
    pc \in {"details_returned", "details_raised"} =>
        /\ details.ok <=> (/\ ep.one_sentence_plot = <<>> \/ Strip(ep.one_sentence_plot) # <<>>
                           /\ ep.one_sentence_reason = <<>> \/ Strip(ep.one_sentence_reason) # <<>>)
        /\ details.ok => /\ FourNonEmpty(details.val.plot_bullets)
                         /\ FourNonEmpty(details.val.reason_bullets)

(***************************************************************************)
(* fetch_imdb_rating_from_omdb (svu_picker.py 201-216).  response is what  *)
(* the request meets: an exception of requests.get, raise_for_status or    *)
(* r.json() ("raises"), or a JSON object whose imdbRating is absent or a   *)
(* text.  Every exception inside the try block is caught and None is       *)
(* returned.                                                               *)
(***************************************************************************)
Response(kind, rating) == [kind |-> kind, rating |-> rating]

fetch_imdb_rating_from_omdb(key_set, imdb_id, response) ==
    IF ~key_set \/ imdb_id = <<>> THEN Returned(NoRating)
    ELSE IF response.kind = "raises" THEN Returned(NoRating)
    ELSE IF Truthy(response.rating) /\ response.rating.s # <<"N", "/", "A">>
         THEN IF ParseFloat(response.rating.s).ok
              THEN Returned(Rating(ParseFloat(response.rating.s).val))
              ELSE Returned(NoRating)
         ELSE Returned(NoRating)

\* whether the lookup ended in the except branch
LookupFailed(key_set, imdb_id, response) ==
    /\ key_set
    /\ imdb_id # <<>>
    /\ \/ response.kind = "raises"
       \/ /\ Truthy(response.rating)
          /\ response.rating.s # <<"N", "/", "A">>
          /\ ~ParseFloat(response.rating.s).ok

(***************************************************************************)
(* main (svu_picker.py 219-270), one action per stage: load, one turn of   *)
(* the enrichment loop, the details branch, the range check, the filter    *)
(* and the ranking.  The data file named by --data is taken to exist.      *)
(***************************************************************************)
\* the near-zero threshold 0.1 of line 238, in tenths
NEAR_ZERO == 1

\* SAMPLE_EPISODES (lines 39-63); the typographic apostrophe of the texts is
\* written as the ASCII one
SampleScourgePlot ==
    <<"T", "h", "e", " ", "S", "V", "U", " ", "h", "u", "n", "t", "s",
      " ", "a", " ", "s", "a", "d", "i", "s", "t", "i", "c", " ", "s",
      "e", "r", "i", "a", "l", " ", "k", "i", "l", "l", "e", "r", " ",
      "w", "h", "o", "s", "e", " ", "c", "r", "i", "m", "e", "s", " ",
      "e", "s", "c", "a", "l", "a", "t", "e", " ", "i", "n", " ", "b",
      "r", "u", "t", "a", "l", "i", "t", "y", " ", "a", "n", "d", " ",
      "p", "s", "y", "c", "h", "o", "l", "o", "g", "i", "c", "a", "l",
      " ", "c", "o", "m", "p", "l", "e", "x", "i", "t", "y", ".">>

SampleScourgeReason ==
    <<"A", " ", "t", "e", "n", "s", "e", ",", " ", "p", "r", "o", "f",
      "i", "l", "e", "r", "-", "d", "r", "i", "v", "e", "n", " ", "e",
      "p", "i", "s", "o", "d", "e", " ", "w", "h", "e", "r", "e", " ",
      "G", "e", "o", "r", "g", "e", " ", "H", "u", "a", "n", "g", "'",
      "s", " ", "i", "n", "s", "i", "g", "h", "t", "s", " ", "m", "e",
      "a", "n", "i", "n", "g", "f", "u", "l", "l", "y", " ", "s", "h",
      "a", "p", "e", " ", "t", "h", "e", " ", "i", "n", "v", "e", "s",
      "t", "i", "g", "a", "t", "i", "o", "n", ".">>

SampleRepressionPlot ==
    <<"A", " ", "r", "a", "p", "e", " ", "c", "a", "s", "e", " ", "h",
      "i", "n", "g", "e", "s", " ", "o", "n", " ", "r", "e", "p", "r",
      "e", "s", "s", "e", "d", " ", "c", "h", "i", "l", "d", "h", "o",
      "o", "d", " ", "m", "e", "m", "o", "r", "i", "e", "s", ",", " ",
      "r", "a", "i", "s", "i", "n", "g", " ", "d", "o", "u", "b", "t",
      "s", " ", "a", "b", "o", "u", "t", " ", "t", "r", "u", "t", "h",
      ",", " ", "t", "r", "a", "u", "m", "a", ",", " ", "a", "n", "d",
      " ", "m", "e", "m", "o", "r", "y", ".">>

SampleRepressionReason ==
    <<"C", "l", "a", "s", "s", "i", "c", " ", "H", "u", "a", "n", "g",
      "-", "f", "o", "c", "u", "s", "e", "d", " ", "p", "s", "y", "c",
      "h", "o", "l", "o", "g", "y", " ", "e", "p", "i", "s", "o", "d",
      "e", " ", "w", "i", "t", "h", " ", "m", "o", "r", "a", "l", " ",
      "a", "m", "b", "i", "g", "u", "i", "t", "y", " ", "a", "n", "d",
      " ", "n", "o", " ", "t", "r", "i", "a", "l", "-", "h", "e", "a",
      "v", "y", " ", "p", "a", "y", "o", "f", "f", ".">>

SampleWrathPlot ==
    <<"A", " ", "k", "i", "l", "l", "e", "r", " ", "s", "e", "e", "k",
      "s", " ", "r", "e", "v", "e", "n", "g", "e", " ", "a", "g", "a",
      "i", "n", "s", "t", " ", "p", "e", "o", "p", "l", "e", " ", "t",
      "i", "e", "d", " ", "t", "o", " ", "B", "e", "n", "s", "o", "n",
      "'", "s", " ", "p", "a", "s", "t", " ", "c", "a", "s", "e", "s",
      ",", " ", "t", "u", "r", "n", "i", "n", "g", " ", "S", "V", "U",
      "'", "s", " ", "h", "i", "s", "t", "o", "r", "y", " ", "a", "g",
      "a", "i", "n", "s", "t", " ", "t", "h", "e", "m", ".">>

SampleWrathReason ==
    <<"H", "i", "g", "h", " ", "e", "m", "o", "t", "i", "o", "n", "a",
      "l", " ", "s", "t", "a", "k", "e", "s", ",", " ", "s", "t", "r",
      "o", "n", "g", " ", "p", "r", "o", "f", "i", "l", "i", "n", "g",
      ",", " ", "a", "n", "d", " ", "r", "e", "l", "e", "n", "t", "l",
      "e", "s", "s", " ", "m", "o", "m", "e", "n", "t", "u", "m", " ",
      "w", "i", "t", "h", "o", "u", "t", " ", "c", "o", "u", "r", "t",
      "r", "o", "o", "m", " ", "d", "r", "a", "g", ".">>

SAMPLE_EPISODES ==
  <<
    [season |-> IntV(2), episode |-> IntV(21),
     title |-> Str(<<"S", "c", "o", "u", "r", "g", "e">>), name |-> Absent,
     air_date |-> Str(<<"2", "0", "0", "1", "-", "0", "5", "-", "1", "1">>),
     imdb_id |-> Str(<<"t", "t", "0", "6", "2", "9", "7", "2", "8">>),
     imdb_rating |-> FloatV(85),
     features_george_huang |-> BoolV(TRUE), heavy_finn_munch |-> BoolV(FALSE),
     heavy_trial |-> BoolV(FALSE),
     one_sentence_plot |-> Str(SampleScourgePlot),
     one_sentence_reason |-> Str(SampleScourgeReason)],
    [season |-> IntV(3), episode |-> IntV(1),
     title |-> Str(<<"R", "e", "p", "r", "e", "s", "s", "i", "o", "n">>), name |-> Absent,
     air_date |-> Str(<<"2", "0", "0", "1", "-", "0", "9", "-", "2", "8">>),
     imdb_id |-> Str(<<"t", "t", "0", "6", "2", "9", "7", "1", "5">>),
     imdb_rating |-> FloatV(82),
     features_george_huang |-> BoolV(TRUE), heavy_finn_munch |-> BoolV(FALSE),
     heavy_trial |-> BoolV(FALSE),
     one_sentence_plot |-> Str(SampleRepressionPlot),
     one_sentence_reason |-> Str(SampleRepressionReason)],
    [season |-> IntV(3), episode |-> IntV(2),
     title |-> Str(<<"W", "r", "a", "t", "h">>), name |-> Absent,
     air_date |-> Str(<<"2", "0", "0", "1", "-", "1", "0", "-", "0", "5">>),
     imdb_id |-> Str(<<"t", "t", "0", "6", "2", "9", "7", "5", "6">>),
     imdb_rating |-> FloatV(83),
     features_george_huang |-> BoolV(TRUE), heavy_finn_munch |-> BoolV(FALSE),
     heavy_trial |-> BoolV(FALSE),
     one_sentence_plot |-> Str(SampleWrathPlot),
     one_sentence_reason |-> Str(SampleWrathReason)]
  >>

NeedsLookup_any_id(e) == e.imdb_id # <<>>

\* the condition of line 238
NeedsLookup(e) ==
    /\ ~e.imdb_rating.known \/ e.imdb_rating.val < NEAR_ZERO
    /\ e.imdb_id # <<>>

\* [normalize_row(r) for r in rs]: the records, or the exception
RECURSIVE NormalizeAll(_)
NormalizeAll(rs) ==
    IF rs = <<>> THEN Returned(<<>>)
    ELSE LET first == normalize_row(Head(rs))
             rest  == NormalizeAll(Tail(rs))
         IN  IF first.ok /\ rest.ok THEN Returned(<<first.val>> \o rest.val)
             ELSE Raised

\* [int(x) for x in text.split(",") if x.strip().isdigit()]
RECURSIVE DigitPieces(_)
DigitPieces(pieces) ==
    IF pieces = <<>> THEN <<>>
    ELSE (IF AllDigits(Strip(Head(pieces)))
          THEN <<ParseInt(Head(pieces)).val>> ELSE <<>>)
             \o DigitPieces(Tail(pieces))

ParseExcludeSeasons(text) == IF text = <<>> THEN <<>> ELSE DigitPieces(Split(text, ","))

\* [e for e in eps if e["title"].lower() == title.lower()]
Matched(eps, title) == SelectSeq(eps, LAMBDA e : Lower(e.title) = Lower(title))

CliRow(season, title, imdb_id, rating, plot) ==
    [BaseRow EXCEPT !.season = season, !.title = title, !.imdb_id = imdb_id,
                    !.imdb_rating = rating, !.one_sentence_plot = plot]

CliRows ==
    { CliRow(Str(<<"2">>), Str(<<"a">>), Str(<<"t", "t", "1">>), Str(<<"8", ".", "5">>),
             Str(<<"a">>)),
      CliRow(Str(<<"3">>), Str(<<"a">>), Str(<<"t", "t", "2">>), Str(<<"9">>),
             Str(<<"a">>)),
      CliRow(Str(<<"2">>), Str(<<"B">>), Str(<<"t", "t", "3">>), Absent, Str(<<"a">>)),
      CliRow(Str(<<"2">>), Str(<<"B">>), Str(<<"t", "t", "4">>), Str(<<"0">>),
             Str(<<"a">>)),
      CliRow(Str(<<"2">>), Str(<<"B">>), Absent, Absent, Str(<<"a">>)),
      CliRow(Str(<<"2">>), Str(<<"c">>), Str(<<"t", "t", "5">>), Str(<<"8", ".", "5">>),
             Str(<<" ">>)),
      CliRow(Str(<<"x">>), Str(<<"c">>), Str(<<"t", "t", "6">>), Str(<<"8", ".", "5">>),
             Str(<<"a">>)) }

RangeGiven == <<"S", "2", "E", "1", ">", "S", "3", "E", "1">>

RangeDescending == <<"S", "3", "E", "1", ">", "S", "2", "E", "1">>

\* args.X is None for an option that was not given
CliArgs ==
    [data : BOOLEAN, range : {Str(RangeGiven)}, num : {DEFAULT_NUM_RESULTS},
     details : {Str(<<" ", "A", " ">>), Str(<<"b">>), Str(<<"C">>), Str(<<"z">>)},
     exclude_seasons : {<<>>}]
        \cup [data : BOOLEAN, range : {Absent}, num : {DEFAULT_NUM_RESULTS},
              details : {Str(<<"b">>), Str(<<"W", "r", "a", "t", "h">>)},
              exclude_seasons : {<<>>}]
        \cup [data : BOOLEAN, range : {Absent, Str(RangeGiven), Str(RangeDescending)},
              num : {1, DEFAULT_NUM_RESULTS}, details : {Absent, Str(<<>>)},
              exclude_seasons : {<<>>, <<"3", ",", " ", "x">>}]

Responses ==
    { Response("raises", Absent),
      Response("json", Absent),
      Response("json", Str(<<"N", "/", "A">>)),
      Response("json", Str(<<"x">>)),
      Response("json", Str(<<"0", ".", "0">>)),
      Response("json", Str(<<"7", ".", "5">>)) }

NotCalled == [called |-> FALSE, before |-> NoRating, failed |-> FALSE]

Init ==
    /\ pc = "main_load"
    /\ args \in CliArgs
    /\ api_key \in BOOLEAN
    /\ file \in IF args.data THEN SeqsUpTo(CliRows, MaxRows) ELSE {<<>>}
    /\ rows = <<>>
    /\ episodes = <<>> /\ fargs = None /\ candidates = <<>>
    /\ idx = 0 /\ lookups = <<>> /\ fetched = <<>> /\ loaded = <<>>
    /\ calls = {} /\ printed = "nothing" /\ exit_code = None
    /\ rng = None /\ range_str = <<>> /\ rebuilt = <<>> /\ rng2 = None
    /\ IdleRank /\ IdleDetail

Exit(what, code) ==
    /\ pc' = "exited"
    /\ printed' = what
    /\ exit_code' = code

\* an exception nothing catches: the traceback and exit status 1
Crash(what) ==
    /\ pc' = "crashed"
    /\ printed' = what
    /\ exit_code' = 1

\* lines 229-233
Load ==
    /\ pc = "main_load"
    /\ LET got == IF args.data THEN NormalizeAll(file) ELSE NormalizeAll(SAMPLE_EPISODES)
       IN  IF got.ok
           THEN /\ episodes' = got.val
                /\ loaded' = got.val
                /\ lookups' = [k \in 1..Len(got.val) |-> 0]
                /\ fetched' = [k \in 1..Len(got.val) |-> NotCalled]
                /\ pc' = "main_enrich"
                /\ UNCHANGED <<printed, exit_code>>
           ELSE /\ Crash("traceback_load")
                /\ UNCHANGED <<episodes, loaded, lookups, fetched>>
    /\ UNCHANGED <<args, api_key, idx, calls, fargs, candidates>>
    /\ UNCHANGED <<rangeVars, loadVars, rankVars, detailVars>>

\* lines 237-241: one turn of the loop, for the record at idx + 1
Enrich ==
    /\ pc = "main_enrich"
    /\ idx < Len(episodes)
    /\ LET k == idx + 1
           e == episodes[k]
       IN  IF NeedsLookup(e)
           THEN \E response \in
                    IF api_key THEN Responses ELSE {Response("raises", Absent)} :
                    LET got == fetch_imdb_rating_from_omdb(api_key, e.imdb_id, response)
                    IN  /\ lookups' = [lookups EXCEPT ![k] = @ + 1]
                        /\ fetched' = [fetched EXCEPT ![k] =
                               [called |-> TRUE, before |-> e.imdb_rating,
                                failed |-> LookupFailed(api_key, e.imdb_id, response)]]
                        /\ IF ~got.ok
                           THEN /\ Crash("traceback_fetch")
                                /\ UNCHANGED <<episodes, idx>>
                           ELSE /\ episodes' =
                                       IF got.val.known /\ got.val.val # 0
                                       THEN [episodes EXCEPT ![k].imdb_rating = got.val]
                                       ELSE episodes
                                /\ idx' = k
                                /\ UNCHANGED <<pc, printed, exit_code>>
           ELSE /\ idx' = k
                /\ UNCHANGED <<episodes, lookups, fetched, pc, printed, exit_code>>
    /\ UNCHANGED <<args, api_key, loaded, calls, fargs, candidates>>
    /\ UNCHANGED <<rangeVars, loadVars, rankVars, detailVars>>

\* lines 244-251
DetailsMode ==
    /\ pc = "main_enrich"
    /\ idx = Len(episodes)
    /\ Truthy(args.details)
    /\ LET title   == Strip(args.details.s)
           matched == Matched(episodes, title)
       IN  IF matched = <<>>
           THEN /\ Exit("not_found", 1)
                /\ UNCHANGED <<ep, details>>
           ELSE /\ ep' = matched[1]
                /\ details' = details_expand(matched[1])
                /\ IF details'.ok THEN Exit("expansion", 0)
                   ELSE Crash("traceback_details")
    /\ UNCHANGED <<args, api_key, idx, lookups, fetched, loaded, calls>>
    /\ UNCHANGED <<rangeVars, loadVars, filterVars, rankVars>>

\* lines 253-256
ParseRangeArg ==
    /\ pc = "main_enrich"
    /\ idx = Len(episodes)
    /\ ~Truthy(args.details)
    /\ IF ~Truthy(args.range)
       THEN /\ Exit("need_range", 1)
            /\ UNCHANGED <<range_str, rng, calls>>
       ELSE /\ range_str' = args.range.s
            /\ rng' = parse_range(args.range.s)
            /\ calls' = calls \cup {"parse_range"}
            /\ IF rng'.ok
               THEN pc' = "main_filter" /\ UNCHANGED <<printed, exit_code>>
               ELSE Crash("traceback_range")
    /\ UNCHANGED <<rebuilt, rng2>>
    /\ UNCHANGED <<args, api_key, idx, lookups, fetched, loaded>>
    /\ UNCHANGED <<loadVars, filterVars, rankVars, detailVars>>

\* lines 257-265
Filter ==
    /\ pc = "main_filter"
    /\ fargs' = [rng |-> rng.q, min_imdb |-> MIN_IMDB_RATING,
                 allow_seasons |-> MAX_SEASONS_ALLOWED,
                 exclude_seasons |-> ParseExcludeSeasons(args.exclude_seasons)]
    /\ candidates' = filter_episodes(episodes, rng.q, MIN_IMDB_RATING,
                                     MAX_SEASONS_ALLOWED,
                                     ParseExcludeSeasons(args.exclude_seasons))
    /\ calls' = calls \cup {"filter_episodes"}
    /\ IF candidates' = <<>> THEN Exit("no_match", 0)
       ELSE pc' = "main_rank" /\ UNCHANGED <<printed, exit_code>>
    /\ UNCHANGED episodes
    /\ UNCHANGED <<args, api_key, idx, lookups, fetched, loaded>>
    /\ UNCHANGED <<rangeVars, loadVars, rankVars, detailVars>>

\* lines 267-270
Rank ==
    /\ pc = "main_rank"
    /\ n' = args.num
    /\ results' = rank_and_select(candidates, args.num)
    /\ calls' = calls \cup {"rank_and_select"}
    /\ Exit("results", 0)
    /\ UNCHANGED <<candidates2, results2>>
    /\ UNCHANGED <<args, api_key, idx, lookups, fetched, loaded>>
    /\ UNCHANGED <<rangeVars, loadVars, filterVars, detailVars>>

Next == Load \/ Enrich \/ DetailsMode \/ ParseRangeArg \/ Filter \/ Rank

Spec == Init /\ [][Next]_vars

(***************************************************************************)
(* Claims about the command-line run.                                      *)
(***************************************************************************)
KnownAtLeastNearZero(r) == r.known /\ r.val >= NEAR_ZERO

\* C7: in a run the lookup is called at most once per record, and only for
\* a record whose rating is then unknown or below 0.1; a record whose rating
\* is known and at least 0.1 is never looked up and keeps its rating; a
\* failed lookup leaves the rating as it was and the run goes on.
C7_EnrichmentOncePerRecord ==
    /\ printed # "traceback_fetch"
    /\ \A k \in 1..Len(episodes) :
           /\ lookups[k] <= 1
           /\ lookups[k] = 1 <=> fetched[k].called
           /\ fetched[k].called => ~KnownAtLeastNearZero(fetched[k].before)
           /\ KnownAtLeastNearZero(loaded[k].imdb_rating) =>
                  /\ lookups[k] = 0
                  /\ episodes[k].imdb_rating = loaded[k].imdb_rating
           /\ fetched[k].failed =>
                  /\ episodes[k].imdb_rating = loaded[k].imdb_rating
                  /\ idx >= k

C7_Witness ==
    /\ pc = "exited"
    /\ printed = "results"
    /\ api_key
    /\ \E k \in 1..Len(episodes) : fetched[k].failed /\ lookups[k] = 1
    /\ \E k \in 1..Len(episodes) :
           KnownAtLeastNearZero(loaded[k].imdb_rating) /\ lookups[k] = 0

C7_WitnessBackfilled ==
    /\ pc = "exited"
    /\ \E k \in 1..Len(episodes) :
           /\ lookups[k] = 1
           /\ ~fetched[k].failed
           /\ loaded[k].imdb_rating = Rating(0)
           /\ episodes[k].imdb_rating = Rating(75)

PipelineCalls == {"parse_range", "filter_episodes", "rank_and_select"}

\* C8: a run in details mode never calls parse_range, filter_episodes or
\* rank_and_select, and it ends either with the expansion of a record whose
\* title matches printed, or with the not-found message and a nonzero exit
\* status when no title matches.
C8_DetailsModeOutcome ==
    (pc # "main_load" /\ Truthy(args.details)) =>
        /\ calls \cap PipelineCalls = {}
        /\ pc # "crashed"
        /\ pc = "exited" =>
               \/ /\ printed = "expansion"
                  /\ Lower(ep.title) = Lower(Strip(args.details.s))
                  /\ details.ok
               \/ /\ printed = "not_found"
                  /\ exit_code # 0
                  /\ Matched(episodes, Strip(args.details.s)) = <<>>

\* the part of C8 that holds of the code: details mode calls none of the
\* three, and a run that ends without an exception ends in one of the two ways
DetailsModeBypasses ==
    (pc # "main_load" /\ Truthy(args.details)) =>
        /\ calls \cap PipelineCalls = {}
        /\ pc = "exited" =>
               \/ /\ printed = "expansion"
                  /\ exit_code = 0
                  /\ Lower(ep.title) = Lower(Strip(args.details.s))
               \/ /\ printed = "not_found"
                  /\ exit_code = 1
                  /\ Matched(episodes, Strip(args.details.s)) = <<>>
        /\ pc = "crashed" => printed \in {"traceback_load", "traceback_details"}

=============================================================================
